---- MODULE Spec2Model ----
(***************************************************************************)
(* liblinkernsbypass: android_linker_ns.cpp.                               *)
(*                                                                         *)
(* The process starts with zero-initialised statics, then the constructor  *)
(* resolve_linker_symbols runs (scan of dlopen's instruction words, then   *)
(* eight lookups), then callers use the public API:                        *)
(* linkernsbypass_load_status, linkernsbypass_namespace_apply_hook and     *)
(* linkernsbypass_dlopen_unique_hooked.  The platform (linker, kernel,     *)
(* ELF soname patcher) is the environment: each of its answers is a        *)
(* nondeterministic choice.                                                *)
(***************************************************************************)
EXTENDS Integers, Sequences, FiniteSets, TLC

\* Every pointer value is a tuple; the null pointer is the empty one.
NULL == <<>>
Str(s) == <<"str", s>>

(***************************************************************************)
(* Bounds of the model.                                                    *)
(***************************************************************************)
MemLen == 2          \* mapped instruction words starting at &dlopen
MaxCalls == 2        \* invocations of linkernsbypass_dlopen_unique_hooked, few inputs
MaxLoads == 1        \* invocations of linkernsbypass_dlopen_unique_hooked, every input
MaxHookCalls == 2    \* direct invocations of linkernsbypass_namespace_apply_hook
MaxNamespaces == 2   \* direct invocations of android_create_namespace

(***************************************************************************)
(* Program constants.                                                      *)
(***************************************************************************)
BLSig == 37                  \* 0x25, BranchLinked::Verify
OffsetBits == 26             \* int32_t offset : 26
InstrSize == 4               \* sizeof(BranchLinked)
TargetIdMod == 65536         \* uint16_t TargetId
SonameSize == 3              \* std::array<char, 3> sonameOverwrite
SonameWidth == 3             \* "%03u"
DlopenAddr == 4096           \* &dlopen, an address of the text segment

RECURSIVE Pow2(_)
Pow2(n) == IF n = 0 THEN 1 ELSE 2 * Pow2(n - 1)

(***************************************************************************)
(* Instruction words.  A 32-bit word is the pair <<high half, low half>>   *)
(* of its 16-bit halves, so that the bit fields are computed from the raw  *)
(* word as the union BranchLinked reads them on little-endian AArch64:     *)
(* offset = bits 0..25 (signed), sig = bits 26..31.                        *)
(***************************************************************************)
NOP    == <<54531, 8223>>     \* 0xD503201F  nop
BLfwd  == <<37888, 2>>        \* 0x94000002  bl  . + 2 words
BLback == <<38911, 65535>>    \* 0x97FFFFFF  bl  . - 1 word
Bfwd   == <<5120, 1>>         \* 0x14000001  b   . + 1 word
Words == {NOP, BLfwd, BLback, Bfwd}

Sig(w) == w[1] \div Pow2(OffsetBits - 16)

\* The offset field read as an unsigned number.
Offset_Unsigned(w) == (w[1] % Pow2(OffsetBits - 16)) * Pow2(16) + w[2]

\* int32_t offset : 26
Offset(w) ==
    LET raw == (w[1] % Pow2(OffsetBits - 16)) * Pow2(16) + w[2]
    IN  IF raw >= Pow2(OffsetBits - 1) THEN raw - Pow2(OffsetBits) ELSE raw

Verify(w) == Sig(w) = BLSig

InstrAddr(i) == DlopenAddr + InstrSize * i

\* blInstr + blInstr->offset: pointer arithmetic on BranchLinked *
BranchTarget(i, w) == InstrAddr(i) + InstrSize * Offset(w)

VARIABLES
    mem,        \* the mapped words from &dlopen on: mem[i+1] is word i
    fnLen,      \* number of those words that belong to dlopen itself
    rpc,        \* position of resolve_linker_symbols
    blInstr,    \* the scan pointer, as a word index from &dlopen
    loader_dlopen,                      \* address found by the scan, 0 before
    android_link_namespaces_all_libs,   \* resolved entry points: TRUE = non-null
    android_link_namespaces,
    loader_android_create_namespace,
    android_get_exported_namespace,
    libdl_android_dlopen_ext,
    lib_loaded,
    statusReturned,  \* values linkernsbypass_load_status has returned so far
    crashed,    \* the process died (fault on an unmapped or null address)
    \* statics of linkernsbypass_dlopen_unique_hooked
    TargetId,
    PathBuf,
    \* the platform's objects
    namespaces, \* handles of the namespaces the linker has created
    hookLibs,   \* hook libraries loaded: <<name, namespace>> -> content of hook_param
    fdTable,    \* open descriptors: fd -> the file behind it
    files,      \* files that exist in the target directory
    patched,    \* calls of elf_soname_patch so far
    finalLoads, \* descriptors passed to the final android_dlopen_ext so far
    lastHook,   \* the latest invocation of linkernsbypass_namespace_apply_hook
    calls,      \* invocations of linkernsbypass_dlopen_unique_hooked so far
    hookCalls,  \* direct invocations of linkernsbypass_namespace_apply_hook so far
    \* per caller thread: the invocation of linkernsbypass_dlopen_unique_hooked
    pc, args, hookNs, libTargetFd, idRead, sonameOverwrite, ret, entryId, trace

rvars == <<mem, fnLen, rpc, blInstr, loader_dlopen,
           android_link_namespaces_all_libs, android_link_namespaces,
           loader_android_create_namespace, android_get_exported_namespace,
           libdl_android_dlopen_ext, lib_loaded, statusReturned>>

gvars == <<TargetId, PathBuf, namespaces, hookLibs, fdTable, files, patched,
           finalLoads, lastHook, calls, hookCalls>>

tvars == <<pc, args, hookNs, libTargetFd, idRead, sonameOverwrite, ret, entryId, trace>>

vars == <<rvars, crashed, gvars, tvars>>

(***************************************************************************)
(* Text formatting, as snprintf does it.  A string is a tuple of           *)
(* one-character strings.                                                  *)
(***************************************************************************)
DigitChar(d) == <<"0", "1", "2", "3", "4", "5", "6", "7", "8", "9">>[d + 1]
NUL == "\\0"

\* "%d" / "%u" of a non-negative value: its decimal digits.
RECURSIVE Dec(_)
Dec(n) == IF n < 10 THEN <<DigitChar(n)>> ELSE Append(Dec(n \div 10), DigitChar(n % 10))

RECURSIVE ZeroPad(_, _)
ZeroPad(str, width) == IF Len(str) >= width THEN str ELSE ZeroPad(<<"0">> \o str, width)

\* "%03u"
Fmt03u(n) == ZeroPad(Dec(n), SonameWidth)

\* snprintf(buf, size, ...) into a zeroed buffer of `size` chars: at most
\* size - 1 characters of the text, then NUL.
Snprintf(size, text) ==
    [i \in 1..size |-> IF i <= Len(text) /\ i < size THEN text[i] ELSE NUL]

\* The C string a char buffer holds: the characters before the first NUL.
RECURSIVE CStr(_)
CStr(buf) == IF buf = <<>> \/ Head(buf) = NUL THEN <<>> ELSE <<Head(buf)>> \o CStr(Tail(buf))

\* A file name that leaves the counter out.
TargetPath_NoId(dir, id) == <<"file", dir[2], "/", "patched.so">>

\* snprintf(PathBuf, PATH_MAX, "%s/%d_patched.so", libTargetDir, TargetId);
\* the directories used here are far shorter than PATH_MAX.
TargetPath(dir, id) == <<"file", dir[2], "/", Dec(id), "_patched.so">>

\* snprintf(PathBuf, PATH_MAX, "/proc/self/fd/%d", libTargetFd)
FdPath(fd) == <<"/proc/self/fd/", Dec(fd)>>

(***************************************************************************)
(* The callers' inputs and the platform's objects.                         *)
(***************************************************************************)
Threads == {"T1", "T2"}

LibPath == Str("/vendor/lib64/libtarget.so")
LibDir == Str("/vendor/lib64")
ParentNs == <<"ns", "parent">>
HookSlotLib == Str("libhook_slot.so")     \* exports hook_param
HookPlainLib == Str("libhook_plain.so")   \* does not
HookLibNames == {HookSlotLib, HookPlainLib}
HasSlot(lib) == lib = HookSlotLib
Params == {<<"param", "P1">>, <<"param", "P2">>}

Unset == <<"unset">>      \* hook_param as the hook library initialises it
NoSlot == <<"noslot">>    \* the library has no hook_param

Inputs ==
    [libPath : {LibPath},
     libTargetDir : {NULL, Str("/data/target")},
     mode : {"RTLD_NOW"},
     hookLibDir : {NULL, LibDir, Str("/data/hooks")},
     hookLibName : {NULL} \cup HookLibNames,
     parentNs : {ParentNs},
     linkToDefault : BOOLEAN,
     hookParam : {NULL} \cup Params]

NoArgs == [libPath |-> NULL, libTargetDir |-> NULL, mode |-> "RTLD_NOW",
           hookLibDir |-> NULL, hookLibName |-> NULL, parentNs |-> NULL,
           linkToDefault |-> FALSE, hookParam |-> NULL]

NoHookCall == [called |-> FALSE, lib |-> NULL, ns |-> NULL, param |-> NULL,
               loads |-> FALSE, before |-> NULL, ok |-> FALSE]

Ev(op, a, r) == [op |-> op, a |-> a, r |-> r]

\* Positions in the trace of the events of one kind.
EvIdx(tr, op) == {i \in 1..Len(tr) : tr[i].op = op}

NewNs == <<"ns", Dec(Cardinality(namespaces))>>
NewFd == 3 + Cardinality(DOMAIN fdTable)

\* The statics and the callers before the first invocation, the counter at
\* one of `ids`.
InitLoaderFrom(ids) ==
    /\ TargetId \in ids
    /\ PathBuf = <<>>
    /\ namespaces = {}
    /\ hookLibs = <<>>
    /\ fdTable = <<>>
    /\ files = {}
    /\ patched = <<>>
    /\ finalLoads = {}
    /\ lastHook = NoHookCall
    /\ calls = 0
    /\ hookCalls = 0
    /\ pc = [t \in Threads |-> "idle"]
    /\ args = [t \in Threads |-> NoArgs]
    /\ hookNs = [t \in Threads |-> NULL]
    /\ libTargetFd = [t \in Threads |-> -1]
    /\ idRead = [t \in Threads |-> 0]
    /\ sonameOverwrite = [t \in Threads |-> Snprintf(SonameSize, <<>>)]
    /\ ret = [t \in Threads |-> NULL]
    /\ entryId = [t \in Threads |-> 0]
    /\ trace = [t \in Threads |-> <<>>]

\* static uint16_t TargetId{};
InitLoader == InitLoaderFrom({0})

(***************************************************************************)
(* resolve_linker_symbols (the constructor).                               *)
(***************************************************************************)
\* The text of dlopen on the supported platform: a few instructions, then
\* the call of __loader_dlopen.
PlatformImage == [i \in 1..MemLen |-> IF i = MemLen THEN BLfwd ELSE NOP]

InitImageFrom(images, lens, ids) ==
    /\ mem \in images
    /\ fnLen \in lens
    /\ rpc = "scan"
    /\ blInstr = 0
    /\ loader_dlopen = 0
    /\ android_link_namespaces_all_libs = FALSE
    /\ android_link_namespaces = FALSE
    /\ loader_android_create_namespace = FALSE
    /\ android_get_exported_namespace = FALSE
    /\ libdl_android_dlopen_ext = FALSE
    /\ lib_loaded = FALSE
    /\ statusReturned = {}
    /\ crashed = FALSE
    /\ InitLoaderFrom(ids)

InitImage(images, lens) == InitImageFrom(images, lens, {0})

\* Any text at &dlopen, and a function of any length within it.
InitResolver == InitImage([1..MemLen -> Words], 1..MemLen)

Init == InitImage({PlatformImage}, {MemLen})

\* The process at its start, and the same process when the counter has
\* reached its last value (after TargetIdMod - 1 invocations that each
\* obtained a destination; their namespaces and descriptors are left out).
InitCounter == InitImageFrom({PlatformImage}, {MemLen}, {0, TargetIdMod - 1})

\* The word the scan pointer is on lies inside dlopen's own instructions.
InFunction(i) == i < fnLen

\* while (!blInstr->Verify()) blInstr++;  return blInstr + blInstr->offset;
\* The loop has no end condition of its own: past the last mapped word the
\* read faults.
Scan ==
    /\ rpc = "scan" /\ ~crashed
    /\ IF blInstr >= MemLen
         THEN /\ crashed' = TRUE
              /\ UNCHANGED <<rvars, gvars, tvars>>
         ELSE /\ IF Verify(mem[blInstr + 1])
                   THEN /\ loader_dlopen' = BranchTarget(blInstr, mem[blInstr + 1])
                        /\ rpc' = "ld"
                        /\ UNCHANGED blInstr
                   ELSE /\ blInstr' = blInstr + 1
                        /\ UNCHANGED <<loader_dlopen, rpc>>
              /\ UNCHANGED <<statusReturned, mem, fnLen, android_link_namespaces_all_libs,
                             android_link_namespaces, loader_android_create_namespace,
                             android_get_exported_namespace, libdl_android_dlopen_ext,
                             lib_loaded, crashed, gvars, tvars>>

\* A handle lookup through the address the scan returned.  When the match was
\* a word past the end of dlopen the address is no function of the linker:
\* the call may also fault.
LoaderDlopen(here, next) ==
    /\ rpc = here /\ ~crashed
    /\ \/ \E handle \in BOOLEAN :
            /\ rpc' = IF handle THEN next ELSE "failed"
            /\ UNCHANGED crashed
       \/ /\ ~InFunction(blInstr)
          /\ crashed' = TRUE
          /\ UNCHANGED rpc
    /\ UNCHANGED <<statusReturned, mem, fnLen, blInstr, loader_dlopen,
                   android_link_namespaces_all_libs, android_link_namespaces,
                   loader_android_create_namespace, android_get_exported_namespace,
                   libdl_android_dlopen_ext, lib_loaded, gvars, tvars>>

\* auto ldHandle{loader_dlopen("ld-android.so", ...)}; if (!ldHandle) return;
OpenLd == LoaderDlopen("ld", "link_all")

\* android_link_namespaces_all_libs = dlsym(ldHandle, ...); if (!...) return;
ResolveLinkAll ==
    /\ rpc = "link_all" /\ ~crashed
    /\ \E sym \in BOOLEAN :
         /\ android_link_namespaces_all_libs' = sym
         /\ rpc' = IF sym THEN "link" ELSE "failed"
    /\ UNCHANGED <<statusReturned, mem, fnLen, blInstr, loader_dlopen, android_link_namespaces,
                   loader_android_create_namespace, android_get_exported_namespace,
                   libdl_android_dlopen_ext, lib_loaded, crashed, gvars, tvars>>

\* android_link_namespaces = dlsym(ldHandle, ...); if (!...) return;
ResolveLink ==
    /\ rpc = "link" /\ ~crashed
    /\ \E sym \in BOOLEAN :
         /\ android_link_namespaces' = sym
         /\ rpc' = IF sym THEN "libdl_android" ELSE "failed"
    /\ UNCHANGED <<statusReturned, mem, fnLen, blInstr, loader_dlopen, android_link_namespaces_all_libs,
                   loader_android_create_namespace, android_get_exported_namespace,
                   libdl_android_dlopen_ext, lib_loaded, crashed, gvars, tvars>>

\* auto libdlAndroidHandle{loader_dlopen("libdl_android.so", ...)}; if (!...) return;
OpenLibdlAndroid == LoaderDlopen("libdl_android", "create_namespace")

\* loader_android_create_namespace = dlsym(libdlAndroidHandle, ...); if (!...) return;
ResolveCreateNamespace ==
    /\ rpc = "create_namespace" /\ ~crashed
    /\ \E sym \in BOOLEAN :
         /\ loader_android_create_namespace' = sym
         /\ rpc' = IF sym THEN "get_exported" ELSE "failed"
    /\ UNCHANGED <<statusReturned, mem, fnLen, blInstr, loader_dlopen, android_link_namespaces_all_libs,
                   android_link_namespaces, android_get_exported_namespace,
                   libdl_android_dlopen_ext, lib_loaded, crashed, gvars, tvars>>

\* android_get_exported_namespace = dlsym(libdlAndroidHandle, ...); if (!...) return;
ResolveGetExported ==
    /\ rpc = "get_exported" /\ ~crashed
    /\ \E sym \in BOOLEAN :
         /\ android_get_exported_namespace' = sym
         /\ rpc' = IF sym THEN "libdl" ELSE "failed"
    /\ UNCHANGED <<statusReturned, mem, fnLen, blInstr, loader_dlopen, android_link_namespaces_all_libs,
                   android_link_namespaces, loader_android_create_namespace,
                   libdl_android_dlopen_ext, lib_loaded, crashed, gvars, tvars>>

\* auto libdlHandle{dlopen("libdl.so", RTLD_LAZY)}; if (!libdlHandle) return;
OpenLibdl ==
    /\ rpc = "libdl" /\ ~crashed
    /\ \E handle \in BOOLEAN :
         rpc' = IF handle THEN "dlopen_ext" ELSE "failed"
    /\ UNCHANGED <<statusReturned, mem, fnLen, blInstr, loader_dlopen, android_link_namespaces_all_libs,
                   android_link_namespaces, loader_android_create_namespace,
                   android_get_exported_namespace, libdl_android_dlopen_ext,
                   lib_loaded, crashed, gvars, tvars>>

\* A resolver that marks the library usable whatever the last lookup gave.
ResolveDlopenExt_NoCheck ==
    /\ rpc = "dlopen_ext" /\ ~crashed
    /\ \E sym \in BOOLEAN :
         /\ libdl_android_dlopen_ext' = sym
         /\ lib_loaded' = TRUE
         /\ rpc' = "done"
    /\ UNCHANGED <<statusReturned, mem, fnLen, blInstr, loader_dlopen, android_link_namespaces_all_libs,
                   android_link_namespaces, loader_android_create_namespace,
                   android_get_exported_namespace, crashed, gvars, tvars>>

\* libdl_android_dlopen_ext = dlsym(libdlHandle, "android_dlopen_ext");
\* if (!libdl_android_dlopen_ext) return;  lib_loaded = true;
ResolveDlopenExt ==
    /\ rpc = "dlopen_ext" /\ ~crashed
    /\ \E sym \in BOOLEAN :
         /\ libdl_android_dlopen_ext' = sym
         /\ lib_loaded' = sym
         /\ rpc' = IF sym THEN "done" ELSE "failed"
    /\ UNCHANGED <<statusReturned, mem, fnLen, blInstr, loader_dlopen, android_link_namespaces_all_libs,
                   android_link_namespaces, loader_android_create_namespace,
                   android_get_exported_namespace, crashed, gvars, tvars>>

resolve_linker_symbols ==
    \/ Scan
    \/ OpenLd
    \/ ResolveLinkAll
    \/ ResolveLink
    \/ OpenLibdlAndroid
    \/ ResolveCreateNamespace
    \/ ResolveGetExported
    \/ OpenLibdl
    \/ ResolveDlopenExt

\* The constructor has returned: main and the caller threads may run.
Constructed == rpc \in {"done", "failed"} /\ ~crashed

(***************************************************************************)
(* linkernsbypass_namespace_apply_hook.                                    *)
(***************************************************************************)
\* android_dlopen_ext with ANDROID_DLEXT_USE_NAMESPACE refuses a null
\* library_namespace; otherwise the load succeeds or fails as the platform
\* decides.
LoadOutcomes(ns) == IF ns = NULL THEN {FALSE} ELSE BOOLEAN

\* hook_param of the instance of `lib` in `ns` before the call's own write.
SlotBefore(lib, ns) ==
    IF <<lib, ns>> \in DOMAIN hookLibs THEN hookLibs[<<lib, ns>>]
    ELSE IF HasSlot(lib) THEN Unset ELSE NoSlot

\* A hook whose parameter is silently dropped when it has no slot for it.
HookParamOk_DropParam(hookParamSym, hookParam) == TRUE

\* if (hookParamSym || hookParam) { if (hookParamSym && hookParam) ... else return false; }
\* return true;
HookParamOk(hookParamSym, hookParam) ==
    (hookParamSym \/ hookParam # NULL) => (hookParamSym /\ hookParam # NULL)

\* The return value of linkernsbypass_namespace_apply_hook.
ApplyHookResult(lib, param, loads) == loads /\ HookParamOk(HasSlot(lib), param)

\* A hook application that stores the parameter whenever the slot exists.
ApplyHookLibs_StoreAlways(lib, ns, param, loads) ==
    IF ~loads THEN hookLibs
    ELSE (<<lib, ns>> :> (IF HasSlot(lib) THEN param ELSE SlotBefore(lib, ns))) @@ hookLibs

\* The loaded hook libraries after linkernsbypass_namespace_apply_hook.
ApplyHookLibs(lib, ns, param, loads) ==
    IF ~loads THEN hookLibs
    ELSE (<<lib, ns>> :> (IF HasSlot(lib) /\ param # NULL
                            THEN param ELSE SlotBefore(lib, ns))) @@ hookLibs

\* What one invocation of linkernsbypass_namespace_apply_hook did.
HookCall(lib, ns, param, loads) ==
    [called |-> TRUE, lib |-> lib, ns |-> ns, param |-> param, loads |-> loads,
     before |-> SlotBefore(lib, ns), ok |-> ApplyHookResult(lib, param, loads)]

(***************************************************************************)
(* linkernsbypass_dlopen_unique_hooked, statement by statement, for the    *)
(* caller thread t.                                                        *)
(***************************************************************************)
Log(t, evs) == trace' = [trace EXCEPT ![t] = trace[t] \o evs]

Goto(t, label) == pc' = [pc EXCEPT ![t] = label]

Return(t, value) ==
    /\ pc' = [pc EXCEPT ![t] = "done"]
    /\ ret' = [ret EXCEPT ![t] = value]

Crash ==
    /\ crashed' = TRUE
    /\ UNCHANGED <<rvars, gvars, tvars>>

Call(t, a, max) ==
    /\ Constructed
    /\ pc[t] \in {"idle", "done"}
    /\ calls < max
    /\ calls' = calls + 1
    /\ args' = [args EXCEPT ![t] = a]
    /\ hookNs' = [hookNs EXCEPT ![t] = NULL]
    /\ libTargetFd' = [libTargetFd EXCEPT ![t] = -1]
    /\ idRead' = [idRead EXCEPT ![t] = 0]
    /\ sonameOverwrite' = [sonameOverwrite EXCEPT ![t] = Snprintf(SonameSize, <<>>)]
    /\ ret' = [ret EXCEPT ![t] = NULL]
    /\ entryId' = [entryId EXCEPT ![t] = TargetId]
    /\ trace' = [trace EXCEPT ![t] = <<>>]
    /\ Goto(t, "create_namespace")
    /\ UNCHANGED <<rvars, crashed, TargetId, PathBuf, namespaces, hookLibs, fdTable,
                   files, patched, finalLoads, lastHook, hookCalls>>

\* A creation that passes the directory of the library as the search path.
CreateNamespace_LibDir(t) ==
    /\ pc[t] = "create_namespace" /\ ~crashed
    /\ IF ~loader_android_create_namespace THEN Crash
       ELSE \E ok \in BOOLEAN :
            LET ns == IF ok THEN NewNs ELSE NULL IN
            /\ namespaces' = IF ok THEN namespaces \cup {ns} ELSE namespaces
            /\ hookNs' = [hookNs EXCEPT ![t] = ns]
            /\ Log(t, <<Ev("android_create_namespace",
                           <<args[t].libPath, LibDir, args[t].parentNs>>, ns)>>)
            /\ Goto(t, IF args[t].linkToDefault THEN "link_default" ELSE "link_parent")
            /\ UNCHANGED <<rvars, crashed, TargetId, PathBuf, hookLibs, fdTable, files,
                           patched, finalLoads, lastHook, calls, hookCalls, args,
                           libTargetFd, idRead, sonameOverwrite, ret, entryId>>

\* auto hookNs{android_create_namespace(libPath, hookLibDir, nullptr, SHARED, nullptr, parentNs)};
CreateNamespace(t) ==
    /\ pc[t] = "create_namespace" /\ ~crashed
    /\ IF ~loader_android_create_namespace THEN Crash
       ELSE \E ok \in BOOLEAN :
            LET ns == IF ok THEN NewNs ELSE NULL IN
            /\ namespaces' = IF ok THEN namespaces \cup {ns} ELSE namespaces
            /\ hookNs' = [hookNs EXCEPT ![t] = ns]
            /\ Log(t, <<Ev("android_create_namespace",
                           <<args[t].libPath, args[t].hookLibDir, args[t].parentNs>>, ns)>>)
            /\ Goto(t, IF args[t].linkToDefault THEN "link_default" ELSE "link_parent")
            /\ UNCHANGED <<rvars, crashed, TargetId, PathBuf, hookLibs, fdTable, files,
                           patched, finalLoads, lastHook, calls, hookCalls, args,
                           libTargetFd, idRead, sonameOverwrite, ret, entryId>>

\* if (linkToDefault) { auto defaultNs{android_create_namespace_escape("default_copy", ...)};
\*                      android_link_namespaces_all_libs(hookNs, defaultNs); }
LinkDefault(t) ==
    /\ pc[t] = "link_default" /\ ~crashed
    /\ IF ~loader_android_create_namespace \/ ~android_link_namespaces_all_libs THEN Crash
       ELSE \E ok \in BOOLEAN :
            LET defaultNs == IF ok THEN NewNs ELSE NULL IN
            /\ namespaces' = IF ok THEN namespaces \cup {defaultNs} ELSE namespaces
            /\ Log(t, <<Ev("android_create_namespace_escape",
                           <<Str("default_copy"), NULL, NULL>>, defaultNs),
                        Ev("android_link_namespaces_all_libs", <<hookNs[t], defaultNs>>, NULL)>>)
            /\ Goto(t, "link_parent")
            /\ UNCHANGED <<rvars, crashed, TargetId, PathBuf, hookLibs, fdTable, files,
                           patched, finalLoads, lastHook, calls, hookCalls, args, hookNs,
                           libTargetFd, idRead, sonameOverwrite, ret, entryId>>

\* A link to the parent that is made only without the link to the default.
LinkParent_Else(t) ==
    /\ pc[t] = "link_parent" /\ ~crashed
    /\ IF ~android_link_namespaces_all_libs THEN Crash
       ELSE /\ Log(t, IF args[t].linkToDefault THEN <<>>
                       ELSE <<Ev("android_link_namespaces_all_libs",
                                 <<hookNs[t], args[t].parentNs>>, NULL)>>)
            /\ Goto(t, "hook")
            /\ UNCHANGED <<rvars, crashed, gvars, args, hookNs, libTargetFd, idRead,
                           sonameOverwrite, ret, entryId>>

\* android_link_namespaces_all_libs(hookNs, parentNs);
LinkParent(t) ==
    /\ pc[t] = "link_parent" /\ ~crashed
    /\ IF ~android_link_namespaces_all_libs THEN Crash
       ELSE /\ Log(t, <<Ev("android_link_namespaces_all_libs",
                           <<hookNs[t], args[t].parentNs>>, NULL)>>)
            /\ Goto(t, "hook")
            /\ UNCHANGED <<rvars, crashed, gvars, args, hookNs, libTargetFd, idRead,
                           sonameOverwrite, ret, entryId>>

\* Where the statements after the hook block start.
AfterHook(t) == IF args[t].libTargetDir # NULL THEN "format_path" ELSE "memfd"

\* The else branch without its check: a parameter with no hook is ignored.
StrayParamRejected_Ignored(t) == FALSE

\* else { if (hookParam) return nullptr; }
StrayParamRejected(t) == args[t].hookParam # NULL

\* if (hookLibName) { if (!linkernsbypass_namespace_apply_hook(...)) return nullptr; }
\* else { if (hookParam) return nullptr; }
Hook(t) ==
    /\ pc[t] = "hook" /\ ~crashed
    /\ IF args[t].hookLibName # NULL
         THEN IF ~libdl_android_dlopen_ext THEN Crash
              ELSE \E loads \in LoadOutcomes(hookNs[t]) :
                   LET lib == args[t].hookLibName
                       ok == ApplyHookResult(lib, args[t].hookParam, loads) IN
                   /\ hookLibs' = ApplyHookLibs(lib, hookNs[t], args[t].hookParam, loads)
                   /\ lastHook' = HookCall(lib, hookNs[t], args[t].hookParam, loads)
                   /\ Log(t, <<Ev("load_hook", <<lib, hookNs[t]>>, loads),
                               Ev("linkernsbypass_namespace_apply_hook",
                                  <<lib, hookNs[t], args[t].hookParam>>, ok)>>)
                   /\ IF ok THEN Goto(t, AfterHook(t)) /\ UNCHANGED ret
                      ELSE Return(t, NULL)
                   /\ UNCHANGED <<rvars, crashed, TargetId, PathBuf, namespaces, fdTable,
                                  files, patched, finalLoads, calls, hookCalls, args,
                                  hookNs, libTargetFd, idRead, sonameOverwrite, entryId>>
         ELSE /\ IF StrayParamRejected(t) THEN Return(t, NULL)
                 ELSE Goto(t, AfterHook(t)) /\ UNCHANGED ret
              /\ UNCHANGED <<rvars, crashed, gvars, args, hookNs, libTargetFd, idRead,
                             sonameOverwrite, entryId, trace>>

(***************************************************************************)
(* PathBuf is one static buffer that every invocation writes and reads     *)
(* without a lock.  A write takes time: between its start and its end, and *)
(* after two writes of different texts overlapped, the buffer holds some   *)
(* mixture of the texts, Torn(old, new): of the text being written and the *)
(* text written before it.                                                 *)
(***************************************************************************)
IsTorn(buf) == Len(buf) = 3

Torn(old, new) == <<"torn", IF IsTorn(old) THEN old[3] ELSE old, new>>

\* Thread t is in the middle of a snprintf into PathBuf.
InWrite(t) == pc[t] \in {"format_path_end", "format_fd_end"}

\* The text the snprintf of thread t is writing.
Writing(t) == trace[t][Len(trace[t])].r

\* PathBuf once a snprintf of `text` has started storing characters.
BeginWrite(text) == IF PathBuf = text THEN text ELSE Torn(PathBuf, text)

\* A write that does not terminate the text: the tail of the old one stays.
EndWrite_Unterminated(t, text) == Torn(PathBuf, text)

\* PathBuf once the snprintf of `text` by thread t has stored its last
\* character: the text, unless another write overlapped this one.
EndWrite(t, text) ==
    IF /\ \A u \in Threads \ {t} : ~InWrite(u)
       /\ \/ PathBuf = text
          \/ IsTorn(PathBuf) /\ PathBuf[3] = text
      THEN text
      ELSE Torn(PathBuf, text)

\* The last character of the snprintf of thread t is stored.
WriteEnd(t, here, next) ==
    /\ pc[t] = here /\ ~crashed
    /\ PathBuf' = EndWrite(t, Writing(t))
    /\ Goto(t, next)
    /\ UNCHANGED <<rvars, crashed, TargetId, namespaces, hookLibs, fdTable, files,
                   patched, finalLoads, lastHook, calls, hookCalls, args, hookNs,
                   libTargetFd, idRead, sonameOverwrite, ret, entryId, trace>>

\* snprintf(PathBuf.data(), PathBuf.size(), "%s/%d_patched.so", libTargetDir, TargetId);
FormatPath(t) ==
    /\ pc[t] = "format_path" /\ ~crashed
    /\ LET text == TargetPath(args[t].libTargetDir, TargetId) IN
       /\ PathBuf' = BeginWrite(text)
       /\ Log(t, <<Ev("snprintf", <<args[t].libTargetDir, TargetId>>, text)>>)
    /\ Goto(t, "format_path_end")
    /\ UNCHANGED <<rvars, crashed, TargetId, namespaces, hookLibs, fdTable, files,
                   patched, finalLoads, lastHook, calls, hookCalls, args, hookNs,
                   libTargetFd, idRead, sonameOverwrite, ret, entryId>>

FormatPathEnd(t) == WriteEnd(t, "format_path_end", "open")

\* A lambda result that is used without the test for -1.
GotFd_NoCheck(t, fd) ==
    /\ libTargetFd' = [libTargetFd EXCEPT ![t] = fd]
    /\ Goto(t, "read_id") /\ UNCHANGED ret

\* The statements after the destination is obtained: if (libTargetFd == -1) return nullptr;
GotFd(t, fd) ==
    /\ libTargetFd' = [libTargetFd EXCEPT ![t] = fd]
    /\ IF fd = -1 THEN Return(t, NULL) ELSE Goto(t, "read_id") /\ UNCHANGED ret

\* The path names a file that O_CREAT creates: one in a target directory or
\* one named by a mixture of texts, and not a descriptor under /proc/self/fd.
IsTargetFile(path) == path # <<>> /\ path[1] \in {"file", "torn"}

\* return open(PathBuf.data(), O_CREAT | O_RDWR, S_IRUSR | S_IWUSR);
Open(t) ==
    /\ pc[t] = "open" /\ ~crashed
    /\ \E ok \in BOOLEAN :
         LET fd == IF ok THEN NewFd ELSE -1 IN
         /\ files' = IF ok /\ IsTargetFile(PathBuf) THEN files \cup {PathBuf} ELSE files
         /\ fdTable' = IF ok THEN (fd :> PathBuf) @@ fdTable ELSE fdTable
         /\ Log(t, <<Ev("open", <<PathBuf>>, fd)>>)
         /\ GotFd(t, fd)
    /\ UNCHANGED <<rvars, crashed, TargetId, PathBuf, namespaces, hookLibs, patched,
                   finalLoads, lastHook, calls, hookCalls, args, hookNs, idRead,
                   sonameOverwrite, entryId>>

\* int fd{syscall(__NR_memfd_create, libPath, 0)};
\* if (errno == ENOSYS || fd < 0) return -1; else return fd;
Memfd(t) ==
    /\ pc[t] = "memfd" /\ ~crashed
    /\ \E ok \in BOOLEAN :
         LET fd == IF ok THEN NewFd ELSE -1 IN
         /\ fdTable' = IF ok THEN (fd :> <<"memfd", args[t].libPath[2]>>) @@ fdTable
                       ELSE fdTable
         /\ Log(t, <<Ev("memfd_create", <<args[t].libPath>>, fd)>>)
         /\ GotFd(t, fd)
    /\ UNCHANGED <<rvars, crashed, TargetId, PathBuf, namespaces, hookLibs, files,
                   patched, finalLoads, lastHook, calls, hookCalls, args, hookNs, idRead,
                   sonameOverwrite, entryId>>

\* TargetId++ : the read of the old value ...
ReadId(t) ==
    /\ pc[t] = "read_id" /\ ~crashed
    /\ idRead' = [idRead EXCEPT ![t] = TargetId]
    /\ Goto(t, "write_id")
    /\ UNCHANGED <<rvars, crashed, gvars, args, hookNs, libTargetFd, sonameOverwrite,
                   ret, entryId, trace>>

\* An increment that stores the value it read.
WriteId_NoIncrement(t) ==
    /\ pc[t] = "write_id" /\ ~crashed
    /\ TargetId' = idRead[t]
    /\ sonameOverwrite' = [sonameOverwrite EXCEPT
                             ![t] = Snprintf(SonameSize, Fmt03u(idRead[t]))]
    /\ Log(t, <<Ev("TargetId++", <<idRead[t]>>, TargetId')>>)
    /\ Goto(t, "patch")
    /\ UNCHANGED <<rvars, crashed, PathBuf, namespaces, hookLibs, fdTable, files,
                   patched, finalLoads, lastHook, calls, hookCalls, args, hookNs,
                   libTargetFd, idRead, ret, entryId>>

\* An identity formatted from the value after the increment (++TargetId).
WriteId_PostValue(t) ==
    /\ pc[t] = "write_id" /\ ~crashed
    /\ TargetId' = (idRead[t] + 1) % TargetIdMod
    /\ sonameOverwrite' = [sonameOverwrite EXCEPT
                             ![t] = Snprintf(SonameSize, Fmt03u(TargetId'))]
    /\ Log(t, <<Ev("TargetId++", <<idRead[t]>>, TargetId')>>)
    /\ Goto(t, "patch")
    /\ UNCHANGED <<rvars, crashed, PathBuf, namespaces, hookLibs, fdTable, files,
                   patched, finalLoads, lastHook, calls, hookCalls, args, hookNs,
                   libTargetFd, idRead, ret, entryId>>

\* ... the store of old + 1 in a uint16_t, and
\* snprintf(sonameOverwrite.data(), sonameOverwrite.size(), "%03u", old)
WriteId(t) ==
    /\ pc[t] = "write_id" /\ ~crashed
    /\ TargetId' = (idRead[t] + 1) % TargetIdMod
    /\ sonameOverwrite' = [sonameOverwrite EXCEPT
                             ![t] = Snprintf(SonameSize, Fmt03u(idRead[t]))]
    /\ Log(t, <<Ev("TargetId++", <<idRead[t]>>, TargetId')>>)
    /\ Goto(t, "patch")
    /\ UNCHANGED <<rvars, crashed, PathBuf, namespaces, hookLibs, fdTable, files,
                   patched, finalLoads, lastHook, calls, hookCalls, args, hookNs,
                   libTargetFd, idRead, ret, entryId>>

\* A patch step whose result is not looked at.
Patch_IgnoreResult(t) ==
    /\ pc[t] = "patch" /\ ~crashed
    /\ \E ok \in BOOLEAN :
         /\ patched' = Append(patched, [attempt |-> calls, id |-> idRead[t],
                                        fd |-> libTargetFd[t],
                                        soname |-> CStr(sonameOverwrite[t]), ok |-> ok])
         /\ Log(t, <<Ev("elf_soname_patch",
                        <<args[t].libPath, libTargetFd[t], CStr(sonameOverwrite[t])>>, ok)>>)
         /\ Goto(t, "format_fd") /\ UNCHANGED ret
    /\ UNCHANGED <<rvars, crashed, TargetId, PathBuf, namespaces, hookLibs, fdTable,
                   files, finalLoads, lastHook, calls, hookCalls, args, hookNs,
                   libTargetFd, idRead, sonameOverwrite, entryId>>

\* A patch step that closes the destination when the patch fails.
Patch_CloseOnFailure(t) ==
    /\ pc[t] = "patch" /\ ~crashed
    /\ \E ok \in BOOLEAN :
         /\ patched' = Append(patched, [attempt |-> calls, id |-> idRead[t],
                                        fd |-> libTargetFd[t],
                                        soname |-> CStr(sonameOverwrite[t]), ok |-> ok])
         /\ Log(t, <<Ev("elf_soname_patch",
                        <<args[t].libPath, libTargetFd[t], CStr(sonameOverwrite[t])>>, ok)>>)
         /\ fdTable' = IF ok THEN fdTable
                       ELSE [fd \in DOMAIN fdTable \ {libTargetFd[t]} |-> fdTable[fd]]
         /\ IF ok THEN Goto(t, "format_fd") /\ UNCHANGED ret ELSE Return(t, NULL)
    /\ UNCHANGED <<rvars, crashed, TargetId, PathBuf, namespaces, hookLibs,
                   files, finalLoads, lastHook, calls, hookCalls, args, hookNs,
                   libTargetFd, idRead, sonameOverwrite, entryId>>

\* if (!elf_soname_patch(libPath, libTargetFd, sonameOverwrite.data())) return nullptr;
Patch(t) ==
    /\ pc[t] = "patch" /\ ~crashed
    /\ \E ok \in BOOLEAN :
         /\ patched' = Append(patched, [attempt |-> calls, id |-> idRead[t],
                                        fd |-> libTargetFd[t],
                                        soname |-> CStr(sonameOverwrite[t]), ok |-> ok])
         /\ Log(t, <<Ev("elf_soname_patch",
                        <<args[t].libPath, libTargetFd[t], CStr(sonameOverwrite[t])>>, ok)>>)
         /\ IF ok THEN Goto(t, "format_fd") /\ UNCHANGED ret ELSE Return(t, NULL)
    /\ UNCHANGED <<rvars, crashed, TargetId, PathBuf, namespaces, hookLibs, fdTable,
                   files, finalLoads, lastHook, calls, hookCalls, args, hookNs,
                   libTargetFd, idRead, sonameOverwrite, entryId>>

\* snprintf(PathBuf.data(), PathBuf.size(), "/proc/self/fd/%d", libTargetFd);
FormatFd(t) ==
    /\ pc[t] = "format_fd" /\ ~crashed
    /\ LET text == FdPath(libTargetFd[t]) IN
       /\ PathBuf' = BeginWrite(text)
       /\ Log(t, <<Ev("snprintf", <<libTargetFd[t]>>, text)>>)
    /\ Goto(t, "format_fd_end")
    /\ UNCHANGED <<rvars, crashed, TargetId, namespaces, hookLibs, fdTable, files,
                   patched, finalLoads, lastHook, calls, hookCalls, args, hookNs,
                   libTargetFd, idRead, sonameOverwrite, ret, entryId>>

FormatFdEnd(t) == WriteEnd(t, "format_fd_end", "dlopen_ext")

\* return libdl_android_dlopen_ext(PathBuf.data(), mode, &hookExtInfo);
FinalLoad(t) ==
    /\ pc[t] = "dlopen_ext" /\ ~crashed
    /\ IF ~libdl_android_dlopen_ext THEN Crash
       ELSE \E loads \in LoadOutcomes(hookNs[t]) :
            LET handle == IF loads THEN <<"lib", Dec(libTargetFd[t])>> ELSE NULL IN
            /\ Log(t, <<Ev("android_dlopen_ext",
                           <<PathBuf, args[t].mode, libTargetFd[t], hookNs[t]>>, handle)>>)
            /\ finalLoads' = finalLoads \cup {libTargetFd[t]}
            /\ Return(t, handle)
            /\ UNCHANGED <<rvars, crashed, TargetId, PathBuf, namespaces, hookLibs,
                           fdTable, files, patched, lastHook, calls, hookCalls, args,
                           hookNs, libTargetFd, idRead, sonameOverwrite, entryId>>

(***************************************************************************)
(* The readiness query and the raw namespace primitives, called by the     *)
(* application itself.                                                     *)
(***************************************************************************)
\* A readiness query that reports whether a namespace exists yet.
LoadStatus_NamespaceMade == lib_loaded /\ namespaces # {}

\* return lib_loaded;
LoadStatus == lib_loaded

\* bool linkernsbypass_load_status()
linkernsbypass_load_status ==
    /\ Constructed
    /\ statusReturned' = statusReturned \cup {LoadStatus}
    /\ UNCHANGED <<mem, fnLen, rpc, blInstr, loader_dlopen,
                   android_link_namespaces_all_libs, android_link_namespaces,
                   loader_android_create_namespace, android_get_exported_namespace,
                   libdl_android_dlopen_ext, lib_loaded, crashed, gvars, tvars>>

\* android_create_namespace(...)
android_create_namespace ==
    /\ Constructed
    /\ Cardinality(namespaces) < MaxNamespaces
    /\ IF ~loader_android_create_namespace THEN Crash
       ELSE \E ok \in BOOLEAN :
            /\ namespaces' = IF ok THEN namespaces \cup {NewNs} ELSE namespaces
            /\ UNCHANGED <<rvars, crashed, TargetId, PathBuf, hookLibs, fdTable, files,
                           patched, finalLoads, lastHook, calls, hookCalls, tvars>>

\* linkernsbypass_namespace_apply_hook(hookLibName, hookNs, hookParam)
linkernsbypass_namespace_apply_hook ==
    /\ Constructed
    /\ hookCalls < MaxHookCalls
    /\ IF ~libdl_android_dlopen_ext THEN Crash
       ELSE \E lib \in HookLibNames, ns \in namespaces \cup {NULL},
               param \in {NULL} \cup Params :
            \E loads \in LoadOutcomes(ns) :
            /\ hookLibs' = ApplyHookLibs(lib, ns, param, loads)
            /\ lastHook' = HookCall(lib, ns, param, loads)
            /\ hookCalls' = hookCalls + 1
            /\ UNCHANGED <<rvars, crashed, TargetId, PathBuf, namespaces, fdTable, files,
                           patched, finalLoads, calls, tvars>>

linkernsbypass_dlopen_unique_hooked(t) ==
    \/ CreateNamespace(t)
    \/ LinkDefault(t)
    \/ LinkParent(t)
    \/ Hook(t)
    \/ FormatPath(t)
    \/ FormatPathEnd(t)
    \/ Open(t)
    \/ Memfd(t)
    \/ ReadId(t)
    \/ WriteId(t)
    \/ Patch(t)
    \/ FormatFd(t)
    \/ FormatFdEnd(t)
    \/ FinalLoad(t)

(***************************************************************************)
(* The specifications.                                                     *)
(***************************************************************************)
\* The inputs of the runs of several invocations: with and without a target
\* directory, with and without a hook that takes a parameter.
SeqInputs ==
    {a \in Inputs : /\ a.hookLibDir = NULL
                    /\ \/ a.hookLibName = NULL /\ a.hookParam = NULL
                       \/ a.hookLibName = HookSlotLib /\ a.hookParam = <<"param", "P1">>}

\* The constructor alone, on any text at &dlopen.
NextResolver == resolve_linker_symbols

SpecResolver == InitResolver /\ [][NextResolver]_vars

\* The constructor, then one invocation after the other by one caller thread.
Next ==
    \/ resolve_linker_symbols
    \/ \E a \in SeqInputs : Call("T1", a, MaxCalls)
    \/ linkernsbypass_dlopen_unique_hooked("T1")

Spec == Init /\ [][Next]_vars

\* The constructor, then the raw namespace primitives.
NextHook ==
    \/ resolve_linker_symbols
    \/ android_create_namespace
    \/ linkernsbypass_namespace_apply_hook

SpecHook == Init /\ [][NextHook]_vars

\* The constructor, then invocations with every combination of inputs.
NextLoad ==
    \/ resolve_linker_symbols
    \/ \E a \in Inputs : Call("T1", a, MaxLoads)
    \/ linkernsbypass_dlopen_unique_hooked("T1")

SpecLoad == Init /\ [][NextLoad]_vars

\* One invocation after the other, from the first and from the last value of
\* the counter.
SpecCounter == InitCounter /\ [][Next]_vars

\* The caller thread t is not inside linkernsbypass_dlopen_unique_hooked.
Outside(t) == pc[t] \in {"idle", "done"}

\* The inputs of the concurrent runs: a hooked load into a target directory
\* with the link to the default namespace, and a plain load into an anonymous
\* file.
ConcInputs ==
    {a \in SeqInputs : /\ a.linkToDefault = (a.libTargetDir # NULL)
                       /\ a.linkToDefault = (a.hookLibName # NULL)}

\* The constructor, then two caller threads that each make one invocation,
\* their statements interleaved in any order.
NextConc ==
    \/ resolve_linker_symbols
    \/ \E t \in Threads, a \in ConcInputs :
           pc[t] = "idle" /\ Call(t, a, Cardinality(Threads))
    \/ \E t \in Threads : linkernsbypass_dlopen_unique_hooked(t)

SpecConc == Init /\ [][NextConc]_vars

\* The constructor, then one caller thread that makes readiness queries
\* between its other operations (hooks are applied by the invocations).
NextStatus ==
    \/ resolve_linker_symbols
    \/ Outside("T1") /\ linkernsbypass_load_status
    \/ Outside("T1") /\ android_create_namespace
    \/ \E a \in SeqInputs : Call("T1", a, MaxLoads)
    \/ linkernsbypass_dlopen_unique_hooked("T1")

SpecStatus == Init /\ [][NextStatus]_vars

(***************************************************************************)
(* Properties.                                                             *)
(***************************************************************************)
\* Namespace creation (the first statement) gave no handle in t's invocation.
NsCreationFailed(t) ==
    \E i \in EvIdx(trace[t], "android_create_namespace") : trace[t][i].r = NULL

\* The invocation created a destination descriptor or file.
DestinationEvents(t) == EvIdx(trace[t], "open") \cup EvIdx(trace[t], "memfd_create")

\* C1: in an invocation whose namespace creation returns no handle, the
\* invocation returns failure, no link call is made on the missing handle, no
\* hook is applied, no destination file or descriptor is created and TargetId
\* keeps the value it had on entry.
C1_NsFailureShortCircuits ==
    \A t \in Threads :
        lib_loaded /\ NsCreationFailed(t) =>
            /\ pc[t] = "done" => ret[t] = NULL
            /\ \A i \in EvIdx(trace[t], "android_link_namespaces_all_libs") :
                   trace[t][i].a[1] # NULL
            /\ \A i \in EvIdx(trace[t], "load_hook") : ~trace[t][i].r
            /\ DestinationEvents(t) = {}
            /\ TargetId = entryId[t]

\* C2: the replacement identities handed to elf_soname_patch by sequential
\* invocations (at most 1000 of them) are pairwise distinct.
C2_IdentitiesDistinct ==
    lib_loaded /\ Len(patched) <= 1000 =>
        \A i, j \in 1..Len(patched) :
            i # j => patched[i].soname # patched[j].soname

\* i written as exactly three zero-padded decimal digits.
ThreeDigits(i) == <<DigitChar((i \div 100) % 10), DigitChar((i \div 10) % 10),
                    DigitChar(i % 10)>>

\* The first k invocations were each given a target directory and reached the
\* patch step.
AllPatchedToFile(k) ==
    \A j \in 1..k :
        /\ patched[j].attempt = j
        /\ fdTable[patched[j].fd][1] = "file"

\* C3: when every invocation so far was given a target directory and reached
\* the patch step, the i-th of them (from 0) opened <i>_patched.so in that
\* directory and handed the patcher the identity i in three decimal digits.
C3_FileAndIdentityOfAttempt ==
    \A k \in 1..Len(patched) :
        lib_loaded /\ AllPatchedToFile(k) =>
            /\ fdTable[patched[k].fd] =
                   <<"file", "/data/target", "/", Dec(k - 1), "_patched.so">>
            /\ patched[k].soname = ThreeDigits(k - 1)

\* C4: every identity derived is a three-digit decimal string, and the one
\* derived from the counter value 1000 is "000" again.
C4_IdentityWrapsAt1000 ==
    \A k \in 1..Len(patched) :
        lib_loaded =>
        /\ Len(patched[k].soname) = 3
        /\ \A c \in 1..Len(patched[k].soname) :
               patched[k].soname[c] \in {DigitChar(d) : d \in 0..9}
        /\ patched[k].id = 1000 => patched[k].soname = <<"0", "0", "0">>

\* C5 as stated: the counter starts at zero and every invocation that
\* returns, whatever step it failed at, has incremented it exactly once.
C5_IncrementedInEveryInvocation ==
    /\ calls = 0 => TargetId = 0
    /\ \A t \in Threads :
           lib_loaded /\ pc[t] = "done" => TargetId = (entryId[t] + 1) % TargetIdMod

\* The invocation of thread t obtained a destination descriptor.
GotDestination(t) == libTargetFd[t] # -1

\* C5, amended: the counter starts at zero, changes only by single
\* increments modulo 2^16, and an invocation that returns has incremented it
\* exactly once if it obtained a destination descriptor and not at all
\* otherwise; so, while the counter has not wrapped, an invocation never
\* observes less than the one before it, and observes more than the one before
\* it when that one obtained a destination.
C5_IncrementedOncePerDestination ==
    /\ [](calls = 0 => TargetId = 0)
    /\ [](\A t \in Threads :
             pc[t] = "done" =>
                 TargetId = (entryId[t] + (IF GotDestination(t) THEN 1 ELSE 0))
                                % TargetIdMod)
    /\ [][TargetId' \in {TargetId, (TargetId + 1) % TargetIdMod}]_vars
    /\ [][\A t \in Threads :
             calls' < TargetIdMod =>
                 /\ entryId'[t] >= entryId[t]
                 /\ (pc[t] = "done" /\ pc'[t] # "done" /\ GotDestination(t))
                        => entryId'[t] > entryId[t]]_vars

\* An invocation that failed before the destination, after one that got one.
C5_Witness ==
    /\ lib_loaded /\ calls = 2 /\ pc["T1"] = "done"
    /\ ~GotDestination("T1") /\ entryId["T1"] = 1 /\ TargetId = 1

\* C6: when elf_soname_patch reports failure the invocation returns failure
\* and its destination descriptor is never passed to the final
\* android_dlopen_ext.
C6_PatchFailureStopsLoad ==
    \A k \in 1..Len(patched) :
        ~patched[k].ok =>
            /\ patched[k].fd \notin finalLoads
            /\ \A t \in Threads :
                   libTargetFd[t] = patched[k].fd =>
                       /\ pc[t] = "done" /\ ret[t] = NULL
                       /\ EvIdx(trace[t], "android_dlopen_ext") = {}

C6_Witness ==
    /\ lib_loaded /\ pc["T1"] = "done" /\ Len(patched) > 0
    /\ ~patched[Len(patched)].ok
    /\ libTargetFd["T1"] = patched[Len(patched)].fd

\* C7: for an invocation of linkernsbypass_namespace_apply_hook whose hook
\* library loads: a parameter and no hook_param slot -> failure; no parameter
\* and no slot -> success; a parameter and a slot -> success, and the slot then
\* holds the parameter.
C7_HookParamContract ==
    lastHook.called /\ lastHook.loads =>
        LET slot == HasSlot(lastHook.lib)
            given == lastHook.param # NULL
        IN  /\ (given /\ ~slot) => ~lastHook.ok
            /\ (~given /\ ~slot) => lastHook.ok
            /\ (given /\ slot) =>
                   /\ lastHook.ok
                   /\ <<lastHook.lib, lastHook.ns>> \in DOMAIN hookLibs
                   /\ hookLibs[<<lastHook.lib, lastHook.ns>>] = lastHook.param

\* A second application to the same hook instance replaces the parameter.
C7_Witness ==
    /\ lastHook.called /\ lastHook.loads /\ lastHook.ok
    /\ lastHook.param = <<"param", "P2">>
    /\ lastHook.before = <<"param", "P1">>
    /\ hookLibs[<<lastHook.lib, lastHook.ns>>] = <<"param", "P2">>

\* Thread t's invocation was given a hook parameter and no hook library name.
StrayParam(t) ==
    pc[t] # "idle" /\ args[t].hookLibName = NULL /\ args[t].hookParam # NULL

\* C8: an invocation given a hook parameter but no hook library name returns
\* failure, and in it no hook library is loaded, no destination is created,
\* the patcher is not invoked and the final load is not performed.
C8_StrayParamFails ==
    \A t \in Threads :
        StrayParam(t) =>
            /\ pc[t] \in {"create_namespace", "link_default", "link_parent", "hook", "done"}
            /\ pc[t] = "done" => ret[t] = NULL
            /\ EvIdx(trace[t], "load_hook") = {}
            /\ DestinationEvents(t) = {}
            /\ EvIdx(trace[t], "elf_soname_patch") = {}
            /\ EvIdx(trace[t], "android_dlopen_ext") = {}
            /\ libTargetFd[t] = -1

C8_Witness ==
    /\ lib_loaded /\ StrayParam("T1") /\ pc["T1"] = "done" /\ ret["T1"] = NULL
    /\ EvIdx(trace["T1"], "android_link_namespaces_all_libs") # {}

\* C9: lib_loaded is true only if every lookup of the resolver succeeded (the
\* routine found by the scan and the five entry points are all set); a lookup
\* that fails stops the resolver there, leaving the later entry points unset,
\* and lib_loaded stays false from then on.
C9_ReadyOnlyIfAllResolved ==
    /\ [](lib_loaded =>
             /\ rpc = "done" /\ loader_dlopen # 0
             /\ android_link_namespaces_all_libs /\ android_link_namespaces
             /\ loader_android_create_namespace /\ android_get_exported_namespace
             /\ libdl_android_dlopen_ext)
    /\ [](rpc = "failed" =>
             /\ ~lib_loaded
             /\ ~libdl_android_dlopen_ext
             /\ android_get_exported_namespace => loader_android_create_namespace
             /\ loader_android_create_namespace => android_link_namespaces
             /\ android_link_namespaces => android_link_namespaces_all_libs)
    /\ [][rpc = "failed" => (rpc' = "failed" /\ ~lib_loaded')]_vars

\* The sixth lookup failed after five succeeded, and the process went on.
C9_Witness ==
    /\ rpc = "failed" /\ ~lib_loaded
    /\ loader_android_create_namespace /\ ~android_get_exported_namespace
    /\ calls > 0

\* No instruction word of dlopen itself is a branch-with-link.
NoBLInFunction == \A i \in 1..fnLen : ~Verify(mem[i])

\* C10: when dlopen's own instructions hold no branch-with-link word the
\* resolver ends as a silent initialisation failure with lib_loaded false: it
\* does not read past the function, does not go on to the lookups and the
\* process does not fault.
C10_NoMatchFailsSilently ==
    NoBLInFunction =>
        /\ ~crashed
        /\ ~lib_loaded
        /\ rpc \in {"scan", "failed"}
        /\ blInstr <= fnLen

\* C11: once the constructor has returned, every readiness query returns the
\* same value, the value of lib_loaded, whatever queries, namespace
\* creations, hook applications and invocations happen in between; lib_loaded
\* is written at most once (false to true, by the last step of the
\* constructor) and the constructor, once returned, never runs again.
C11_StatusStable ==
    /\ [](Cardinality(statusReturned) <= 1)
    /\ [](statusReturned \subseteq {lib_loaded})
    /\ [][lib_loaded' # lib_loaded =>
             rpc = "dlopen_ext" /\ ~lib_loaded /\ lib_loaded']_vars
    /\ [][(rpc = "done" \/ rpc = "failed") => rpc' = rpc]_vars

\* A query answered after an invocation that loaded a hook, performed the
\* final load and failed, with a namespace created by the application too.
C11_Witness ==
    /\ statusReturned = {TRUE}
    /\ pc["T1"] = "done" /\ ret["T1"] = NULL /\ finalLoads # {}
    /\ lastHook.called /\ Cardinality(namespaces) = MaxNamespaces

\* Thread t's invocation asked for a destination and got none.
NoDestination(t) == \E i \in DestinationEvents(t) : trace[t][i].r = -1

\* C12: when no destination can be obtained (memfd_create fails or is
\* unsupported when no target directory is given, or open fails in the target
\* directory) the invocation returns failure at once: it made that one
\* request for a destination and no other (no file is opened after a failed
\* memfd_create), the failing request leaves no new file and no new
\* descriptor, the patcher is not invoked and the final load is not performed.
C12_NoDestinationFails ==
    /\ [](\A t \in Threads :
             NoDestination(t) =>
                 /\ pc[t] = "done" /\ ret[t] = NULL
                 /\ libTargetFd[t] = -1
                 /\ Cardinality(DestinationEvents(t)) = 1
                 /\ EvIdx(trace[t], "memfd_create") # {} =>
                        /\ args[t].libTargetDir = NULL
                        /\ EvIdx(trace[t], "open") = {}
                 /\ EvIdx(trace[t], "elf_soname_patch") = {}
                 /\ EvIdx(trace[t], "android_dlopen_ext") = {})
    /\ [][\A t \in Threads :
             (pc[t] # "done" /\ NoDestination(t)') =>
                 /\ files' = files /\ fdTable' = fdTable
                 /\ patched' = patched /\ finalLoads' = finalLoads]_vars

\* memfd_create failed after a hook was applied.
C12_Witness ==
    /\ lib_loaded /\ NoDestination("T1") /\ pc["T1"] = "done"
    /\ EvIdx(trace["T1"], "memfd_create") # {}
    /\ lastHook.called /\ lastHook.ok

\* The events of thread t's invocation in which it formatted the name of a
\* file in the target directory (a = <<directory, counter value read>>).
NameEvents(t) == {i \in EvIdx(trace[t], "snprintf") : Len(trace[t][i].a) = 2}

\* Threads t and u both read the counter value v for their increment.
BothRead(t, u, v) ==
    /\ \E i \in EvIdx(trace[t], "TargetId++") : trace[t][i].a[1] = v
    /\ \E j \in EvIdx(trace[u], "TargetId++") : trace[u][j].a[1] = v

\* C13: two invocations that run concurrently are not kept apart.  Whenever
\* both read the same counter value for their increment, the counter has
\* advanced by one only and both hand the patcher the same identity; and two
\* invocations format the same file name in the target directory exactly when
\* they read the same counter value for it.  (That such runs exist is
\* C13_Witness.)
C13_SameCounterSameNames ==
    \A t, u \in Threads :
        t # u =>
            /\ \A v \in 0..Cardinality(Threads) :
                   BothRead(t, u, v) =>
                       /\ TargetId = (v + 1) % TargetIdMod
                       /\ \A i \in EvIdx(trace[t], "elf_soname_patch"),
                             j \in EvIdx(trace[u], "elf_soname_patch") :
                              trace[t][i].a[3] = trace[u][j].a[3]
            /\ \A i \in NameEvents(t), j \in NameEvents(u) :
                   trace[t][i].a[1] = trace[u][j].a[1] =>
                       ((trace[t][i].a[2] = trace[u][j].a[2])
                            <=> (trace[t][i].r = trace[u][j].r))

\* Both invocations read counter value 0 at every use: both opened
\* /data/target/0_patched.so, both patched with the same identity, and the
\* counter stands at 1 after two increments.
C13_Witness ==
    /\ lib_loaded /\ pc["T1"] = "done" /\ pc["T2"] = "done"
    /\ BothRead("T1", "T2", 0) /\ TargetId = 1
    /\ \E i \in EvIdx(trace["T1"], "open"), j \in EvIdx(trace["T2"], "open") :
           /\ trace["T1"][i].a = trace["T2"][j].a
           /\ trace["T1"][i].a[1] = TargetPath(Str("/data/target"), 0)
           /\ trace["T1"][i].r # -1 /\ trace["T2"][j].r # -1
    /\ Len(patched) = 2 /\ patched[1].soname = patched[2].soname
    /\ patched[1].ok /\ patched[2].ok /\ Cardinality(finalLoads) = 2

\* The texts the invocation of thread u has written into PathBuf.
TextsOf(u) == {trace[u][j].r : j \in EvIdx(trace[u], "snprintf")}

\* The path that thread t passed in event i is the text it formatted itself
\* (`own`), or else the other invocation has written PathBuf and the path is
\* a text of that invocation or a mixture of texts.
OwnOrOthers(t, i, own) ==
    LET path == trace[t][i].a[1] IN
    path # own =>
        \E u \in Threads \ {t} :
            /\ TextsOf(u) # {}
            /\ path \in TextsOf(u) \/ IsTorn(path)

\* C14: PathBuf is shared by concurrent invocations without exclusion.  The
\* path an invocation passes to open, or as the name of the final load, is
\* the one it formatted just before unless the other invocation has written
\* the buffer in between, and then it is the other's text or a mixture.
\* (That an invocation does open the other's path is C14_Witness.)
C14_PathOfOtherAttempt ==
    \A t \in Threads :
        /\ \A i \in EvIdx(trace[t], "open") :
               /\ trace[t][i - 1].op = "snprintf"
               /\ OwnOrOthers(t, i, trace[t][i - 1].r)
        /\ \A i \in EvIdx(trace[t], "android_dlopen_ext") :
               OwnOrOthers(t, i, <<"/proc/self/fd/", Dec(trace[t][i].a[3])>>)

\* T1 formatted the name of its target file and then opened, with O_CREAT,
\* the /proc/self/fd path that T2 formatted for its final load.
C14_Witness ==
    \E i \in EvIdx(trace["T1"], "open") :
        /\ trace["T1"][i - 1].r = TargetPath(Str("/data/target"), 0)
        /\ libTargetFd["T2"] # -1
        /\ trace["T1"][i].a[1] = FdPath(libTargetFd["T2"])
        /\ trace["T1"][i].a[1] \in TextsOf("T2")
        /\ trace["T1"][i].r # -1

\* C15: an invocation that obtained a destination descriptor and has returned
\* has incremented TargetId exactly once, by one modulo 2^16, whether the
\* patch and the final load succeeded or not; the increment comes after the
\* destination was obtained and before elf_soname_patch is called; the
\* identity handed to the patcher is formatted from the value before the
\* increment, which is also the value in the name of the destination file.
C15_IncrementAfterDestination ==
    \A t \in Threads :
        (pc[t] = "done" /\ GotDestination(t)) =>
            LET old == entryId[t]
                incs == EvIdx(trace[t], "TargetId++")
                pats == EvIdx(trace[t], "elf_soname_patch")
            IN  /\ TargetId = (old + 1) % TargetIdMod
                /\ Cardinality(incs) = 1 /\ Cardinality(pats) = 1
                /\ Cardinality(DestinationEvents(t)) = 1
                /\ \A k \in incs :
                       /\ trace[t][k].a = <<old>>
                       /\ trace[t][k].r = (old + 1) % TargetIdMod
                       /\ \A d \in DestinationEvents(t) : d < k
                       /\ \A q \in pats : k < q
                /\ \A q \in pats :
                       trace[t][q].a[3] = CStr(Snprintf(SonameSize, Fmt03u(old)))
                /\ \A n \in NameEvents(t) : trace[t][n].a[2] = old

\* The counter wrapped from 65535 to 0 in an invocation whose patch failed
\* after it opened 65535_patched.so.
C15_Witness ==
    /\ lib_loaded /\ pc["T1"] = "done" /\ GotDestination("T1") /\ ret["T1"] = NULL
    /\ entryId["T1"] = TargetIdMod - 1 /\ TargetId = 0
    /\ NameEvents("T1") # {} /\ finalLoads = {}

\* The calls thread t's invocation has made, by name, in order; the loading
\* of the hook library inside linkernsbypass_namespace_apply_hook and the
\* formatting of paths are left out.
CallsMade(t) ==
    LET made == SelectSeq(trace[t], LAMBDA e : e.op \notin {"load_hook", "snprintf"})
    IN  [i \in 1..Len(made) |-> made[i].op]

\* The calls of an invocation with arguments a that goes through to the
\* final load.
CallsOfFullLoad(a) ==
    <<"android_create_namespace">>
    \o (IF a.linkToDefault
          THEN <<"android_create_namespace_escape", "android_link_namespaces_all_libs">>
          ELSE <<>>)
    \o <<"android_link_namespaces_all_libs">>
    \o (IF a.hookLibName # NULL THEN <<"linkernsbypass_namespace_apply_hook">> ELSE <<>>)
    \o <<IF a.libTargetDir # NULL THEN "open" ELSE "memfd_create">>
    \o <<"TargetId++", "elf_soname_patch", "android_dlopen_ext">>

\* C16: an invocation that performs the final load has made, once each and
\* in this order: the namespace creation; with linkToDefault only, the
\* default_copy creation through android_create_namespace_escape and the
\* link of the new namespace to it; the link of the new namespace to the
\* parent (with or without linkToDefault); with a hook name only, a hook
\* application that succeeded; the request for the destination, which gave a
\* descriptor; the increment; a patch that succeeded.  The final load is
\* given the namespace of the first call and the descriptor of the
\* destination.
C16_OrderOfFullLoad ==
    \A t \in Threads :
        EvIdx(trace[t], "android_dlopen_ext") # {} =>
            LET tr == trace[t]
                a == args[t]
                links == EvIdx(tr, "android_link_namespaces_all_libs")
            IN  /\ CallsMade(t) = CallsOfFullLoad(a)
                /\ tr[1].op = "android_create_namespace" /\ tr[1].r = hookNs[t]
                /\ \A i \in EvIdx(tr, "android_create_namespace_escape") :
                       /\ tr[i].a = <<Str("default_copy"), NULL, NULL>>
                       /\ tr[i + 1].op = "android_link_namespaces_all_libs"
                       /\ tr[i + 1].a = <<hookNs[t], tr[i].r>>
                /\ \E i \in links :
                       /\ \A j \in links : j <= i
                       /\ tr[i].a = <<hookNs[t], a.parentNs>>
                /\ \A i \in EvIdx(tr, "linkernsbypass_namespace_apply_hook") :
                       tr[i].r /\ tr[i].a = <<a.hookLibName, hookNs[t], a.hookParam>>
                /\ \A i \in DestinationEvents(t) : tr[i].r = libTargetFd[t] /\ tr[i].r # -1
                /\ \A i \in EvIdx(tr, "elf_soname_patch") :
                       tr[i].r /\ tr[i].a[2] = libTargetFd[t]
                /\ \A i \in EvIdx(tr, "android_dlopen_ext") :
                       tr[i].a[3] = libTargetFd[t] /\ tr[i].a[4] = hookNs[t]

\* A final load that succeeded, with the link to the default namespace and a
\* hook with its parameter, into a file of the target directory.
C16_Witness ==
    /\ lib_loaded /\ pc["T1"] = "done" /\ ret["T1"] # NULL
    /\ args["T1"].linkToDefault /\ args["T1"].hookLibName = HookSlotLib
    /\ args["T1"].libTargetDir # NULL
    /\ EvIdx(trace["T1"], "android_dlopen_ext") # {}

\* The scan has returned: the word it stopped on and the words before it.
ScanDone == rpc # "scan"
Matched == mem[blInstr + 1]
FirstMatch ==
    /\ Matched[1] \div Pow2(10) = BLSig
    /\ \A i \in 1..blInstr : mem[i][1] \div Pow2(10) # BLSig

\* The low 26 bits of a word, sign-extended.
SignedLow26(w) ==
    LET low == (w[1] % Pow2(10)) * Pow2(16) + w[2]
    IN  IF low >= Pow2(25) THEN low - Pow2(26) ELSE low

\* C17 as stated: the scan stops on the first word from &dlopen whose top 6
\* bits are 0x25, and the address it returns is the address of that word plus
\* its low 26 bits as a sign-extended number.
C17_TargetIsAddressPlusOffset ==
    ScanDone =>
        /\ FirstMatch
        /\ loader_dlopen = InstrAddr(blInstr) + SignedLow26(Matched)

\* C17, amended: the address returned is the address of that word plus its
\* sign-extended low 26 bits counted in instruction words of 4 bytes; a
\* negative offset gives an address before the instruction.
C17_TargetIsAddressPlusWords ==
    ScanDone =>
        /\ FirstMatch
        /\ loader_dlopen = InstrAddr(blInstr) + 4 * SignedLow26(Matched)
        /\ SignedLow26(Matched) < 0 => loader_dlopen < InstrAddr(blInstr)
        /\ SignedLow26(Matched) > 0 => loader_dlopen > InstrAddr(blInstr)

\* A plain branch (top bits 0x05) is passed over and the bl that follows it,
\* with offset -1, gives the address of the word before it.
C17_Witness ==
    /\ ScanDone /\ blInstr = 1 /\ mem[1] = Bfwd /\ Matched = BLback
    /\ loader_dlopen = DlopenAddr

\* C18 as stated: the namespace creation of an invocation is given the
\* directory of the library to load as its search path (ld_library_path) and
\* the caller's parent namespace as its parent, whatever libPath and
\* hookLibDir are.
C18_SearchPathIsLibraryDir ==
    \A t \in Threads :
        \A i \in EvIdx(trace[t], "android_create_namespace") :
            (lib_loaded /\ args[t].libPath = LibPath) =>
                /\ trace[t][i].a[2] = LibDir
                /\ trace[t][i].a[3] = args[t].parentNs

\* C18, amended: the namespace creation is given libPath as the name of the
\* namespace, hookLibDir (null when the caller gave none) as its search path
\* and the caller's parent namespace as its parent; the directory of the
\* library is the search path only when the caller passes it as hookLibDir.
C18_SearchPathIsHookLibDir ==
    \A t \in Threads :
        \A i \in EvIdx(trace[t], "android_create_namespace") :
            /\ trace[t][i].a[1] = args[t].libPath
            /\ trace[t][i].a[2] = args[t].hookLibDir
            /\ trace[t][i].a[3] = args[t].parentNs
            /\ (trace[t][i].a[2] = LibDir) <=> (args[t].hookLibDir = LibDir)

\* A namespace created with a hook directory that is not the library's.
C18_Witness ==
    /\ lib_loaded /\ args["T1"].libPath = LibPath
    /\ args["T1"].hookLibDir = Str("/data/hooks")
    /\ \E i \in EvIdx(trace["T1"], "android_create_namespace") :
           trace["T1"][i].a[2] = Str("/data/hooks") /\ trace["T1"][i].r # NULL

\* C19: nothing is ever released.  No step closes a descriptor, removes a
\* destination file, unloads a hook library or destroys a namespace; so
\* every namespace, descriptor and hook library that any invocation so far
\* obtained still exists, those of failed invocations included.
C19_NothingReleased ==
    /\ [][/\ namespaces \subseteq namespaces'
          /\ files \subseteq files'
          /\ DOMAIN hookLibs \subseteq DOMAIN hookLibs'
          /\ DOMAIN fdTable \subseteq DOMAIN fdTable'
          /\ \A fd \in DOMAIN fdTable : fdTable'[fd] = fdTable[fd]]_vars
    /\ [](/\ \A k \in 1..Len(patched) : patched[k].fd \in DOMAIN fdTable
          /\ finalLoads \subseteq DOMAIN fdTable
          /\ \A t \in Threads :
                 /\ hookNs[t] # NULL => hookNs[t] \in namespaces
                 /\ libTargetFd[t] # -1 => libTargetFd[t] \in DOMAIN fdTable
                 /\ \A i \in EvIdx(trace[t], "load_hook") :
                        trace[t][i].r => <<trace[t][i].a[1], trace[t][i].a[2]>>
                                              \in DOMAIN hookLibs)

\* After an invocation whose patch failed and one whose final load failed,
\* the descriptors and files of both, their namespaces and the hook library
\* are all still there.
C19_Witness ==
    /\ lib_loaded /\ calls = 2 /\ pc["T1"] = "done" /\ ret["T1"] = NULL
    /\ Len(patched) = 2 /\ ~patched[1].ok /\ patched[2].ok
    /\ finalLoads = {patched[2].fd}
    /\ DOMAIN fdTable = {patched[1].fd, patched[2].fd}
    /\ Cardinality(files) = 2 /\ Cardinality(namespaces) >= 2
    /\ hookLibs # <<>>

\* Thread t's invocation names the hook library that has a hook_param slot
\* and gives no parameter.
SlotHookNoParam(t) ==
    pc[t] # "idle" /\ args[t].hookLibName = HookSlotLib /\ args[t].hookParam = NULL

\* C20: linkernsbypass_namespace_apply_hook on a hook library that loads and
\* has a hook_param slot, called with a null parameter, returns false and
\* leaves the slot as it was; it returns true exactly when the library loads
\* and the slot exists if and only if a parameter is given; so an invocation
\* of the loader naming such a hook without a parameter returns failure
\* before it asks for a destination.
C20_SlotWithoutParamFails ==
    /\ lastHook.called =>
           LET slot == HasSlot(lastHook.lib)
               given == lastHook.param # NULL
           IN  /\ (lastHook.loads /\ slot /\ ~given) =>
                      /\ ~lastHook.ok
                      /\ hookLibs[<<lastHook.lib, lastHook.ns>>] = lastHook.before
               /\ lastHook.ok <=> (lastHook.loads /\ (slot <=> given))
    /\ \A t \in Threads :
           SlotHookNoParam(t) =>
               /\ pc[t] \in {"create_namespace", "link_default", "link_parent",
                              "hook", "done"}
               /\ pc[t] = "done" => ret[t] = NULL
               /\ DestinationEvents(t) = {} /\ libTargetFd[t] = -1
               /\ EvIdx(trace[t], "snprintf") = {}
               /\ EvIdx(trace[t], "elf_soname_patch") = {}
               /\ EvIdx(trace[t], "android_dlopen_ext") = {}
               /\ TargetId = entryId[t]

\* The hook library with the slot was loaded, no parameter was given, and
\* the invocation has returned failure.
C20_Witness ==
    /\ lib_loaded /\ SlotHookNoParam("T1") /\ pc["T1"] = "done" /\ ret["T1"] = NULL
    /\ lastHook.called /\ lastHook.loads /\ lastHook.lib = HookSlotLib
    /\ lastHook.param = NULL /\ ~lastHook.ok
    /\ hookLibs[<<HookSlotLib, hookNs["T1"]>>] = Unset

====
